---------------------------- MODULE Spec2Model ----------------------------
(***************************************************************************)
(* Model of the two command handlers of ignite/cmd:                        *)
(*   networkCampaignUpdateHandler  (network_campaign_update.go)            *)
(*   networkChainInitHandler       (network_chain_init.go)                 *)
(* One CLI process runs one handler at a time; the remote campaign store   *)
(* and the local chain workspaces persist from one invocation to the next. *)
(* Every collaborator call of a run is appended to `calls`, so ordering    *)
(* properties are statements about that log.                               *)
(***************************************************************************)
EXTENDS Integers, Sequences, FiniteSets, TLC

VARIABLES
    cmd,        \* handler of the current / last invocation: "none", "campaign", "chain"
    pc,         \* position inside the handler; "idle" before any run, "done" after a return
    in,         \* command-line input of the invocation (args[0] and flags)
    loc,        \* local variables of the handler
    ret,        \* value returned by the handler: "none" (still running), "nil" or an error
    calls,      \* log of the collaborator calls made by the invocation, in order
    stdout,     \* what the invocation printed
    runs,       \* number of invocations started so far
    campaigns,  \* remote campaign store: campaign id -> campaign record
    workspace,  \* local chain homes: launch id -> state of the home directory
    wsAtStart,  \* the workspace as it was when the invocation started
    prev        \* summary of the previous invocation

vars == <<cmd, pc, in, loc, ret, calls, stdout, runs, campaigns, workspace, wsAtStart, prev>>

(***************************************************************************)
(* Bounds                                                                  *)
(***************************************************************************)
\* number of handler invocations in one behaviour
MaxRuns == 2

(***************************************************************************)
(* Input domains                                                           *)
(***************************************************************************)
\* args[0], a string written as the sequence of its characters
IDArgs == { <<"9">>, <<"4", "2">>, <<"7", "x">>, <<>> }
NameFlags == { "", "testnet" }
MetadataFlags == { "", "meta" }
\* a --total-supply string, written as the sequence of its comma separated
\* tokens; a token is an amount and a denomination
Coin(a, d) == [amount |-> a, denom |-> d]
TotalSupplyFlags ==
    { <<>>,
      <<Coin(100, "stake")>>,
      <<Coin(0, "stake")>>,
      <<Coin(5, "stake"), Coin(3, "atom")>>,
      <<Coin(1, "stake"), Coin(2, "stake")>>,
      <<Coin(7, "")>> }
AccountFlags == { "alice", "bob" }
\* --validator-gas-price, a string written as the sequence of its pieces
GasPriceFlags == { <<>>, <<"1", "stake">> }
\* stake denominations a genesis can declare
StakeDenoms == { "stake", "uatom" }
\* what the user types for the four questions of askValidatorInfo, in order;
\* an empty string is a bare return
UserInputs ==
    { <<"", "", "", "">>,
      <<"50000000stake", "", "", "">>,
      <<"", "0.05", "0.25", "0.02">>,
      <<"50000000stake", "0.05", "", "0.02">> }
\* accounts present in the keyring
Accounts == { "alice" }
\* answers the confirmation prompt can end with
PromptResults == { "y", "n", "interrupt", "eof" }

Errors ==
    { "ErrInvalidCoins", "ErrBuilder", "ErrParseID", "ErrNoFields", "ErrNetwork",
      "ErrUpdateCampaign", "ErrCampaign", "ErrMarshal",
      "ErrAccountNotFound", "ErrHomeCheck", "ErrChainLaunch", "ErrChain", "ErrInit",
      "ErrGenesisPath", "ErrParseGenesis", "ErrAskValidator", "ErrInitAccount",
      "ErrPrompt", "ErrIncompleteInput" }

(***************************************************************************)
(* network.ParseID: strconv.ParseUint(id, 10, 64)                          *)
(***************************************************************************)
Digits == <<"0", "1", "2", "3", "4", "5", "6", "7", "8", "9">>
IsDigit(c) == \E i \in 1..Len(Digits) : Digits[i] = c
DigitVal(c) == (CHOOSE i \in 1..Len(Digits) : Digits[i] = c) - 1

RECURSIVE DecimalValue(_)
DecimalValue(s) ==
    IF s = <<>> THEN 0
    ELSE DecimalValue(SubSeq(s, 1, Len(s) - 1)) * Len(Digits) + DigitVal(s[Len(s)])

ParseID(s) ==
    IF s # <<>> /\ \A i \in 1..Len(s) : IsDigit(s[i])
    THEN [ok |-> TRUE, id |-> DecimalValue(s)]
    ELSE [ok |-> FALSE, id |-> 0]

(***************************************************************************)
(* sdk.ParseCoinsNormalized: every token must be a well-formed coin; zero  *)
(* coins are dropped, the rest is sorted by denomination, and a            *)
(* denomination that occurs twice is an error.                             *)
(***************************************************************************)
DenomOrder == <<"atom", "stake">>
IsDenom(d) == \E i \in 1..Len(DenomOrder) : DenomOrder[i] = d
DenomRank(d) == CHOOSE i \in 1..Len(DenomOrder) : DenomOrder[i] = d

RECURSIVE RemoveZeroCoins(_)
RemoveZeroCoins(cs) ==
    IF cs = <<>> THEN <<>>
    ELSE IF Head(cs).amount = 0 THEN RemoveZeroCoins(Tail(cs))
    ELSE <<Head(cs)>> \o RemoveZeroCoins(Tail(cs))

RECURSIVE InsertCoin(_, _)
InsertCoin(c, cs) ==
    IF cs = <<>> THEN <<c>>
    ELSE IF DenomRank(c.denom) < DenomRank(Head(cs).denom) THEN <<c>> \o cs
    ELSE <<Head(cs)>> \o InsertCoin(c, Tail(cs))

RECURSIVE SortCoins(_)
SortCoins(cs) ==
    IF cs = <<>> THEN <<>> ELSE InsertCoin(Head(cs), SortCoins(Tail(cs)))

ValidCoins(cs) ==
    \A i \in 1..Len(cs) :
        /\ cs[i].amount > 0
        /\ i > 1 => DenomRank(cs[i - 1].denom) < DenomRank(cs[i].denom)

ParseCoinsNormalized(str) ==
    IF \E i \in 1..Len(str) : ~IsDenom(str[i].denom) \/ str[i].amount < 0
    THEN [ok |-> FALSE, coins |-> <<>>]
    ELSE LET sane == SortCoins(RemoveZeroCoins(str))
         IN  IF ValidCoins(sane)
             THEN [ok |-> TRUE, coins |-> sane]
             ELSE [ok |-> FALSE, coins |-> <<>>]

\* sdk.Coins.Empty
Empty(coins) == Len(coins) = 0

(***************************************************************************)
(* State shared by the two handlers                                        *)
(***************************************************************************)
NoCampaign == [name |-> "", metadata |-> "", totalSupply |-> <<>>]
\* chain.Validator (zero value); GasPrices is a string written as its pieces
NoValidator ==
    [ Name |-> "", Website |-> "", Details |-> "", Moniker |-> "", Identity |-> "",
      SecurityContact |-> "", MinSelfDelegation |-> "", GasPrices |-> <<>>,
      StakingAmount |-> "", CommissionRate |-> "", CommissionMaxRate |-> "",
      CommissionMaxChangeRate |-> "" ]

LocInit ==
    [ totalSupply |-> <<>>, id |-> 0, nb |-> FALSE, exist |-> FALSE,
      proposals |-> <<>>, campaign |-> NoCampaign, info |-> <<>>,
      validatorAccount |-> "", stakeDenom |-> <<>>, v |-> NoValidator, gentxPath |-> "" ]

InNone ==
    [ arg |-> <<>>, name |-> "", metadata |-> "", totalSupply |-> <<>>,
      yes |-> FALSE, account |-> "", website |-> "", details |-> "",
      securityContact |-> "", moniker |-> "", identity |-> "", selfDelegation |-> "",
      gasPrice |-> <<>> ]

Call(op, arg, ok) == [op |-> op, arg |-> arg, ok |-> ok]

Called(op) == \E i \in 1..Len(calls) : calls[i].op = op
CallCount(op) == Cardinality({ i \in 1..Len(calls) : calls[i].op = op })
CallIndex(op) == CHOOSE i \in 1..Len(calls) : calls[i].op = op
Succeeded(op) == \E i \in 1..Len(calls) : calls[i].op = op /\ calls[i].ok

\* nb.Cleanup() deferred before the error check of newNetworkBuilder
WithDeferred_Always(cs) == Append(cs, Call("Cleanup", <<>>, TRUE))

\* defer nb.Cleanup(): runs on every return once the builder exists
WithDeferred(cs) == IF loc.nb THEN Append(cs, Call("Cleanup", <<>>, TRUE)) ELSE cs

Return(r, cs) ==
    /\ ret' = r
    /\ pc' = "done"
    /\ calls' = WithDeferred(cs)

Goto(next, cs) ==
    /\ pc' = next
    /\ calls' = cs
    /\ ret' = ret

\* newNetworkBuilder(cmd)
NewBuilder(next) ==
    \E ok \in BOOLEAN :
        LET cs == Append(calls, Call("newNetworkBuilder", <<>>, ok))
        IN  IF ok
            THEN /\ loc' = [loc EXCEPT !.nb = TRUE]
                 /\ Goto(next, cs)
            ELSE /\ loc' = loc
                 /\ Return("ErrBuilder", cs)

\* network.ParseID(args[0])
ParseArg(next) ==
    LET r == ParseID(in.arg)
        cs == Append(calls, Call("ParseID", in.arg, r.ok))
    IN  IF r.ok
        THEN /\ loc' = [loc EXCEPT !.id = r.id]
             /\ Goto(next, cs)
        ELSE /\ loc' = loc
             /\ Return("ErrParseID", cs)

\* nb.Network()
Network(next) ==
    \E ok \in BOOLEAN :
        LET cs == Append(calls, Call("Network", <<>>, ok))
        IN  /\ loc' = loc
            /\ IF ok THEN Goto(next, cs) ELSE Return("ErrNetwork", cs)

\* how the invocation that has just returned ended
GentxGenerated == cmd = "chain" /\ Succeeded("InitAccount")
Declined == cmd = "chain" /\ Called("Prompt") /\ ~Succeeded("Prompt")
FailedOp ==
    IF \E i \in 1..Len(calls) : ~calls[i].ok
    THEN calls[CHOOSE i \in 1..Len(calls) : ~calls[i].ok].op
    ELSE ""
Outcome ==
    IF pc # "done" THEN "none"
    ELSE IF Declined THEN "declined"
    ELSE IF ret = "nil" THEN "success"
    ELSE "failure"

Summary == [cmd |-> cmd, id |-> loc.id, ret |-> ret, kind |-> Outcome, failedOp |-> FailedOp]
NoSummary == [cmd |-> "none", id |-> 0, ret |-> "none", kind |-> "none", failedOp |-> ""]

\* a new process starts: fresh locals, the persistent state is kept
Begin(c, input) ==
    /\ pc \in {"idle", "done"}
    /\ runs < MaxRuns
    /\ runs' = runs + 1
    /\ prev' = Summary
    /\ cmd' = c
    /\ in' = input
    /\ loc' = LocInit
    /\ ret' = "none"
    /\ calls' = <<>>
    /\ stdout' = <<>>
    /\ wsAtStart' = workspace
    /\ UNCHANGED <<campaigns, workspace>>

(***************************************************************************)
(* networkCampaignUpdateHandler                                            *)
(***************************************************************************)
\* campaigns that exist on the remote chain
CampaignIDs == { 9 }

\* network.WithCampaignName / WithCampaignMetadata / WithCampaignTotalSupply
Prop(field, value) == [field |-> field, value |-> value]

\* the remote applies a batch of propositions to a campaign, all or nothing
RECURSIVE ApplyProps(_, _)
ApplyProps(c, props) ==
    IF props = <<>> THEN c
    ELSE LET p == Head(props)
             c1 == IF p.field = "name" THEN [c EXCEPT !.name = p.value]
                   ELSE IF p.field = "metadata" THEN [c EXCEPT !.metadata = p.value]
                   ELSE [c EXCEPT !.totalSupply = p.value]
         IN  ApplyProps(c1, Tail(props))

\* yaml.Marshal of a campaign: one line per field
Marshal(c) ==
    << <<"name", c.name>>, <<"metadata", c.metadata>>, <<"totalSupply", c.totalSupply>> >>

\* line 58 with the total-supply test negated
NoFieldsProvided_Negated(campaignName, metadata, totalSupply) ==
    campaignName = "" /\ metadata = "" /\ ~Empty(totalSupply)

\* the guard of line 58
NoFieldsProvided(campaignName, metadata, totalSupply) ==
    campaignName = "" /\ metadata = "" /\ Empty(totalSupply)

\* lines 73-83 with the metadata block placed before the name block
BuildProposals_Swapped(campaignName, metadata, totalSupply) ==
    (IF metadata # "" THEN <<Prop("metadata", metadata)>> ELSE <<>>)
        \o (IF campaignName # "" THEN <<Prop("name", campaignName)>> ELSE <<>>)
        \o (IF ~Empty(totalSupply) THEN <<Prop("totalSupply", totalSupply)>> ELSE <<>>)

\* the proposals slice built by lines 73-83
BuildProposals(campaignName, metadata, totalSupply) ==
    (IF campaignName # "" THEN <<Prop("name", campaignName)>> ELSE <<>>)
        \o (IF metadata # "" THEN <<Prop("metadata", metadata)>> ELSE <<>>)
        \o (IF ~Empty(totalSupply) THEN <<Prop("totalSupply", totalSupply)>> ELSE <<>>)

CU_Start ==
    /\ \E arg \in IDArgs, name \in NameFlags, metadata \in MetadataFlags,
          totalSupply \in TotalSupplyFlags :
            Begin("campaign",
                  [InNone EXCEPT !.arg = arg, !.name = name, !.metadata = metadata,
                                 !.totalSupply = totalSupply])
    /\ pc' = "parseCoins"

\* lines 41-44 with the parse error dropped (totalSupply, _ := ...)
CU_ParseCoins_IgnoreErr ==
    /\ cmd = "campaign" /\ pc = "parseCoins"
    /\ LET r == ParseCoinsNormalized(in.totalSupply)
           cs == Append(calls, Call("ParseCoinsNormalized", in.totalSupply, r.ok))
       IN  /\ loc' = [loc EXCEPT !.totalSupply = r.coins]
           /\ Goto("newBuilder", cs)
    /\ UNCHANGED <<cmd, in, stdout, runs, campaigns, workspace, wsAtStart, prev>>

\* lines 41-44
CU_ParseCoins ==
    /\ cmd = "campaign" /\ pc = "parseCoins"
    /\ LET r == ParseCoinsNormalized(in.totalSupply)
           cs == Append(calls, Call("ParseCoinsNormalized", in.totalSupply, r.ok))
       IN  IF r.ok
           THEN /\ loc' = [loc EXCEPT !.totalSupply = r.coins]
                /\ Goto("newBuilder", cs)
           ELSE /\ loc' = loc
                /\ Return("ErrInvalidCoins", cs)
    /\ UNCHANGED <<cmd, in, stdout, runs, campaigns, workspace, wsAtStart, prev>>

\* lines 46-50
CU_NewBuilder ==
    /\ cmd = "campaign" /\ pc = "newBuilder"
    /\ NewBuilder("parseID")
    /\ UNCHANGED <<cmd, in, stdout, runs, campaigns, workspace, wsAtStart, prev>>

\* lines 52-56
CU_ParseID ==
    /\ cmd = "campaign" /\ pc = "parseID"
    /\ ParseArg("checkFields")
    /\ UNCHANGED <<cmd, in, stdout, runs, campaigns, workspace, wsAtStart, prev>>

\* lines 58-66 testing the flag string instead of the parsed total supply
CU_CheckFields_RawString ==
    /\ cmd = "campaign" /\ pc = "checkFields"
    /\ IF NoFieldsProvided(in.name, in.metadata, in.totalSupply)
       THEN Return("ErrNoFields", calls)
       ELSE Goto("network", calls)
    /\ UNCHANGED <<cmd, in, loc, stdout, runs, campaigns, workspace, wsAtStart, prev>>

\* lines 58-66
CU_CheckFields ==
    /\ cmd = "campaign" /\ pc = "checkFields"
    /\ IF NoFieldsProvided(in.name, in.metadata, loc.totalSupply)
       THEN Return("ErrNoFields", calls)
       ELSE Goto("network", calls)
    /\ UNCHANGED <<cmd, in, loc, stdout, runs, campaigns, workspace, wsAtStart, prev>>

\* lines 68-71
CU_Network ==
    /\ cmd = "campaign" /\ pc = "network"
    /\ Network("build")
    /\ UNCHANGED <<cmd, in, stdout, runs, campaigns, workspace, wsAtStart, prev>>

\* lines 73-83
CU_BuildProposals ==
    /\ cmd = "campaign" /\ pc = "build"
    /\ loc' = [loc EXCEPT !.proposals = BuildProposals(in.name, in.metadata, loc.totalSupply)]
    /\ Goto("update", calls)
    /\ UNCHANGED <<cmd, in, stdout, runs, campaigns, workspace, wsAtStart, prev>>

\* lines 85-87 with the error of the submission dropped
CU_UpdateCampaign_IgnoreErr ==
    /\ cmd = "campaign" /\ pc = "update"
    /\ \E ok \in BOOLEAN :
        LET cs == Append(calls, Call("UpdateCampaign",
                                     [id |-> loc.id, props |-> loc.proposals], ok))
        IN  /\ ok => loc.id \in CampaignIDs
            /\ campaigns' = IF ok
                             THEN [campaigns EXCEPT
                                     ![loc.id] = ApplyProps(campaigns[loc.id], loc.proposals)]
                             ELSE campaigns
            /\ Goto("campaign", cs)
    /\ UNCHANGED <<cmd, in, loc, stdout, runs, workspace, wsAtStart, prev>>

\* lines 85-87: the remote rejects an unknown campaign and may fail for any
\* other reason; an accepted batch is applied as a whole
CU_UpdateCampaign ==
    /\ cmd = "campaign" /\ pc = "update"
    /\ \E ok \in BOOLEAN :
        LET cs == Append(calls, Call("UpdateCampaign",
                                     [id |-> loc.id, props |-> loc.proposals], ok))
        IN  /\ ok => loc.id \in CampaignIDs
            /\ IF ok
               THEN /\ campaigns' = [campaigns EXCEPT
                                        ![loc.id] = ApplyProps(campaigns[loc.id], loc.proposals)]
                    /\ Goto("campaign", cs)
               ELSE /\ campaigns' = campaigns
                    /\ Return("ErrUpdateCampaign", cs)
    /\ UNCHANGED <<cmd, in, loc, stdout, runs, workspace, wsAtStart, prev>>

\* lines 89-93
CU_Campaign ==
    /\ cmd = "campaign" /\ pc = "campaign"
    /\ \E ok \in BOOLEAN :
        LET got == IF ok THEN campaigns[loc.id] ELSE NoCampaign
            cs == Append(calls, Call("Campaign", [id |-> loc.id, campaign |-> got], ok))
        IN  /\ ok => loc.id \in CampaignIDs
            /\ IF ok
               THEN /\ loc' = [loc EXCEPT !.campaign = got]
                    /\ stdout' = Append(stdout, <<>>)
                    /\ Goto("marshal", cs)
               ELSE /\ loc' = loc
                    /\ stdout' = stdout
                    /\ Return("ErrCampaign", cs)
    /\ UNCHANGED <<cmd, in, runs, campaigns, workspace, wsAtStart, prev>>

\* lines 95-98
CU_Marshal ==
    /\ cmd = "campaign" /\ pc = "marshal"
    /\ \E ok \in BOOLEAN :
        LET cs == Append(calls, Call("Marshal", loc.campaign, ok))
        IN  IF ok
            THEN /\ loc' = [loc EXCEPT !.info = Marshal(loc.campaign)]
                 /\ Goto("print", cs)
            ELSE /\ loc' = loc
                 /\ Return("ErrMarshal", cs)
    /\ UNCHANGED <<cmd, in, stdout, runs, campaigns, workspace, wsAtStart, prev>>

\* lines 100-102
CU_Print ==
    /\ cmd = "campaign" /\ pc = "print"
    /\ stdout' = Append(stdout, loc.info)
    /\ Return("nil", Append(calls, Call("Spinner.Stop", <<>>, TRUE)))
    /\ UNCHANGED <<cmd, in, loc, runs, campaigns, workspace, wsAtStart, prev>>

NextCampaign ==
    \/ CU_Start
    \/ CU_ParseCoins
    \/ CU_NewBuilder
    \/ CU_ParseID
    \/ CU_CheckFields
    \/ CU_Network
    \/ CU_BuildProposals
    \/ CU_UpdateCampaign
    \/ CU_Campaign
    \/ CU_Marshal
    \/ CU_Print

(***************************************************************************)
(* networkChainInitHandler                                                 *)
(***************************************************************************)
\* launch ids a chain home can exist for
LaunchIDs == { 9, 42 }
\* states of a chain home: never created, left behind by a failed
\* initialization, initialized with its genesis, holding a gentx
HomeStates == { "absent", "stale", "initialized", "gentx" }

\* networkchain.IsChainHomeExist: the home directory is there
HomeExists(home) == home # "absent"

\* line 78 without the yes-flag test
NeedsPrompt_IgnoreYes(yes, exist) == exist

\* line 78 with the existence test negated
NeedsPrompt_Inverted(yes, exist) == ~yes /\ ~exist

\* the condition of line 78
NeedsPrompt(yes, exist) == ~yes /\ exist

\* promptui.Prompt{IsConfirm: true}.Run returns an error unless the answer is yes
PromptErr(answer) == answer # "y"

\* line 88 returning the error of the prompt
DeclineResult_Err == "ErrPrompt"

\* the value returned at line 88 when the prompt ends with an error
DeclineResult == "nil"

\* chain.Validator built from the flags with the stake denomination as the
\* name of the validator account
ValidatorFromFlags_DefaultName(flags, stakeDenom) ==
    [ NoValidator EXCEPT
        !.Name = stakeDenom[1],
        !.Website = flags.website,
        !.Details = flags.details,
        !.Moniker = flags.moniker,
        !.Identity = flags.identity,
        !.SecurityContact = flags.securityContact,
        !.MinSelfDelegation = flags.selfDelegation,
        !.GasPrices = IF flags.gasPrice = <<>> THEN <<"0">> \o stakeDenom
                      ELSE flags.gasPrice ]

\* chain.Validator built without the test of line 153
ValidatorFromFlags_AlwaysDerived(flags, stakeDenom) ==
    [ NoValidator EXCEPT
        !.Name = flags.account,
        !.Website = flags.website,
        !.Details = flags.details,
        !.Moniker = flags.moniker,
        !.Identity = flags.identity,
        !.SecurityContact = flags.securityContact,
        !.MinSelfDelegation = flags.selfDelegation,
        !.GasPrices = <<"0">> \o stakeDenom ]

\* chain.Validator built from the flags, lines 144-165
ValidatorFromFlags(flags, stakeDenom) ==
    [ NoValidator EXCEPT
        !.Name = flags.account,
        !.Website = flags.website,
        !.Details = flags.details,
        !.Moniker = flags.moniker,
        !.Identity = flags.identity,
        !.SecurityContact = flags.securityContact,
        !.MinSelfDelegation = flags.selfDelegation,
        !.GasPrices = IF flags.gasPrice = <<>> THEN <<"0">> \o stakeDenom
                      ELSE flags.gasPrice ]

\* cliquiz.NewQuestion(label, answer field, DefaultAnswer, Required)
Question(label, field, default, required) ==
    [label |-> label, field |-> field, default |-> default, required |-> required]

\* lines 167-188 with the staking amount question left without a default
Questions_NoStakingDefault ==
    << Question("Staking amount", "StakingAmount", "", TRUE),
       Question("Commission rate", "CommissionRate", "0.10", TRUE),
       Question("Commission max rate", "CommissionMaxRate", "0.20", TRUE),
       Question("Commission max change rate", "CommissionMaxChangeRate", "0.01", TRUE) >>

\* the questions of lines 167-188
Questions ==
    << Question("Staking amount", "StakingAmount", "95000000stake", TRUE),
       Question("Commission rate", "CommissionRate", "0.10", TRUE),
       Question("Commission max rate", "CommissionMaxRate", "0.20", TRUE),
       Question("Commission max change rate", "CommissionMaxChangeRate", "0.01", TRUE) >>

\* the answer cliquiz stores for a question: what was typed, or the default
\* of the question on a bare return
Answer(q, typed) == IF typed # "" THEN typed ELSE q.default

\* cliquiz.Ask: asks the questions in order and stores each answer in its
\* field; a required question left without an answer is an error
RECURSIVE Ask(_, _, _)
Ask(v, qs, typed) ==
    IF qs = <<>> THEN [ok |-> TRUE, err |-> "nil", v |-> v]
    ELSE LET q == Head(qs)
             a == Answer(q, Head(typed))
         IN  IF q.required /\ a = ""
             THEN [ok |-> FALSE, err |-> "ErrIncompleteInput", v |-> v]
             ELSE Ask([v EXCEPT ![q.field] = a], Tail(qs), Tail(typed))

\* askValidatorInfo, lines 142-190: the profile returned and the error of Ask;
\* an interrupted quiz stores no answer
AskValidatorInfo(flags, stakeDenom, typed, interrupted) ==
    IF interrupted
    THEN [ok |-> FALSE, err |-> "ErrAskValidator", v |-> ValidatorFromFlags(flags, stakeDenom)]
    ELSE Ask(ValidatorFromFlags(flags, stakeDenom), Questions, typed)

CI_Start ==
    /\ \E arg \in IDArgs, yes \in BOOLEAN, account \in AccountFlags,
          gasPrice \in GasPriceFlags :
            Begin("chain", [InNone EXCEPT !.arg = arg, !.yes = yes, !.account = account,
                                          !.gasPrice = gasPrice])
    /\ pc' = "newBuilder"

\* lines 53-57
CI_NewBuilder ==
    /\ cmd = "chain" /\ pc = "newBuilder"
    /\ NewBuilder("parseID")
    /\ UNCHANGED <<cmd, in, stdout, runs, campaigns, workspace, wsAtStart, prev>>

\* lines 59-63
CI_ParseID ==
    /\ cmd = "chain" /\ pc = "parseID"
    /\ ParseArg("getByName")
    /\ UNCHANGED <<cmd, in, stdout, runs, campaigns, workspace, wsAtStart, prev>>

\* lines 65-69 with the error of the lookup dropped
CI_GetByName_IgnoreErr ==
    /\ cmd = "chain" /\ pc = "getByName"
    /\ LET ok == in.account \in Accounts
           cs == Append(calls, Call("GetByName", in.account, ok))
       IN  /\ loc' = [loc EXCEPT !.validatorAccount = in.account]
           /\ Goto("homeCheck", cs)
    /\ UNCHANGED <<cmd, in, stdout, runs, campaigns, workspace, wsAtStart, prev>>

\* lines 65-69
CI_GetByName ==
    /\ cmd = "chain" /\ pc = "getByName"
    /\ LET ok == in.account \in Accounts
           cs == Append(calls, Call("GetByName", in.account, ok))
       IN  /\ loc' = [loc EXCEPT !.validatorAccount = in.account]
           /\ IF ok THEN Goto("homeCheck", cs) ELSE Return("ErrAccountNotFound", cs)
    /\ UNCHANGED <<cmd, in, stdout, runs, campaigns, workspace, wsAtStart, prev>>

\* lines 73-76
CI_IsChainHomeExist ==
    /\ cmd = "chain" /\ pc = "homeCheck"
    /\ \E ok \in BOOLEAN :
        LET exist == ok /\ HomeExists(workspace[loc.id])
            cs == Append(calls, Call("IsChainHomeExist", [id |-> loc.id, exist |-> exist], ok))
        IN  IF ok
            THEN /\ loc' = [loc EXCEPT !.exist = exist]
                 /\ Goto("confirm", cs)
            ELSE /\ loc' = loc
                 /\ Return("ErrHomeCheck", cs)
    /\ UNCHANGED <<cmd, in, stdout, runs, campaigns, workspace, wsAtStart, prev>>

\* lines 78-91 without the return of line 88
CI_Confirm_NoReturn ==
    /\ cmd = "chain" /\ pc = "confirm"
    /\ IF NeedsPrompt(in.yes, loc.exist)
       THEN \E answer \in PromptResults :
                LET stopped == Append(calls, Call("Spinner.Stop", <<>>, TRUE))
                    asked == Append(stopped, Call("Prompt", answer, ~PromptErr(answer)))
                IN  /\ stdout' = IF PromptErr(answer) THEN Append(stdout, "said no") ELSE stdout
                    /\ Goto("network", Append(asked, Call("Spinner.Start", <<>>, TRUE)))
       ELSE /\ stdout' = stdout
            /\ Goto("network", calls)
    /\ UNCHANGED <<cmd, in, loc, runs, campaigns, workspace, wsAtStart, prev>>

\* lines 78-91 returning the error of the prompt unless the answer was no
CI_Confirm_PropagateFailure ==
    /\ cmd = "chain" /\ pc = "confirm"
    /\ IF NeedsPrompt(in.yes, loc.exist)
       THEN \E answer \in PromptResults :
                LET stopped == Append(calls, Call("Spinner.Stop", <<>>, TRUE))
                    asked == Append(stopped, Call("Prompt", answer, ~PromptErr(answer)))
                IN  IF PromptErr(answer)
                    THEN /\ stdout' = Append(stdout, "said no")
                         /\ Return(IF answer = "n" THEN DeclineResult ELSE "ErrPrompt", asked)
                    ELSE /\ stdout' = stdout
                         /\ Goto("network", Append(asked, Call("Spinner.Start", <<>>, TRUE)))
       ELSE /\ stdout' = stdout
            /\ Goto("network", calls)
    /\ UNCHANGED <<cmd, in, loc, runs, campaigns, workspace, wsAtStart, prev>>

\* lines 78-91
CI_Confirm ==
    /\ cmd = "chain" /\ pc = "confirm"
    /\ IF NeedsPrompt(in.yes, loc.exist)
       THEN \E answer \in PromptResults :
                LET stopped == Append(calls, Call("Spinner.Stop", <<>>, TRUE))
                    asked == Append(stopped, Call("Prompt", answer, ~PromptErr(answer)))
                IN  IF PromptErr(answer)
                    THEN /\ stdout' = Append(stdout, "said no")
                         /\ Return(DeclineResult, asked)
                    ELSE /\ stdout' = stdout
                         /\ Goto("network", Append(asked, Call("Spinner.Start", <<>>, TRUE)))
       ELSE /\ stdout' = stdout
            /\ Goto("network", calls)
    /\ UNCHANGED <<cmd, in, loc, runs, campaigns, workspace, wsAtStart, prev>>

\* lines 93-96
CI_Network ==
    /\ cmd = "chain" /\ pc = "network"
    /\ Network("chainLaunch")
    /\ UNCHANGED <<cmd, in, stdout, runs, campaigns, workspace, wsAtStart, prev>>

\* lines 98-101 with the error of the fetch dropped
CI_ChainLaunch_IgnoreErr ==
    /\ cmd = "chain" /\ pc = "chainLaunch"
    /\ \E ok \in BOOLEAN :
        Goto("chain", Append(calls, Call("ChainLaunch", loc.id, ok)))
    /\ UNCHANGED <<cmd, in, loc, stdout, runs, campaigns, workspace, wsAtStart, prev>>

\* lines 98-101
CI_ChainLaunch ==
    /\ cmd = "chain" /\ pc = "chainLaunch"
    /\ \E ok \in BOOLEAN :
        LET cs == Append(calls, Call("ChainLaunch", loc.id, ok))
        IN  IF ok THEN Goto("chain", cs) ELSE Return("ErrChainLaunch", cs)
    /\ UNCHANGED <<cmd, in, loc, stdout, runs, campaigns, workspace, wsAtStart, prev>>

\* lines 103-106
CI_Chain ==
    /\ cmd = "chain" /\ pc = "chain"
    /\ \E ok \in BOOLEAN :
        LET cs == Append(calls, Call("Chain", loc.id, ok))
        IN  IF ok THEN Goto("init", cs) ELSE Return("ErrChain", cs)
    /\ UNCHANGED <<cmd, in, loc, stdout, runs, campaigns, workspace, wsAtStart, prev>>

\* lines 108-110 skipped when the home is already initialized
CI_Init_Resume ==
    /\ cmd = "chain" /\ pc = "init"
    /\ \E ok \in BOOLEAN :
        LET cs == Append(calls, Call("Init", loc.id, ok))
        IN  IF workspace[loc.id] = "initialized"
            THEN /\ workspace' = workspace
                 /\ Goto("genesisPath", calls)
            ELSE IF ok
            THEN /\ workspace' = [workspace EXCEPT ![loc.id] = "initialized"]
                 /\ Goto("genesisPath", cs)
            ELSE /\ \E home \in {workspace[loc.id], "stale"} :
                        workspace' = [workspace EXCEPT ![loc.id] = home]
                 /\ Return("ErrInit", cs)
    /\ UNCHANGED <<cmd, in, loc, stdout, runs, campaigns, wsAtStart, prev>>

\* lines 108-110: c.Init creates or overwrites the home; a failed
\* initialization may leave a partly written home behind
CI_Init ==
    /\ cmd = "chain" /\ pc = "init"
    /\ \E ok \in BOOLEAN :
        LET cs == Append(calls, Call("Init", loc.id, ok))
        IN  IF ok
            THEN /\ workspace' = [workspace EXCEPT ![loc.id] = "initialized"]
                 /\ Goto("genesisPath", cs)
            ELSE /\ \E home \in {workspace[loc.id], "stale"} :
                        workspace' = [workspace EXCEPT ![loc.id] = home]
                 /\ Return("ErrInit", cs)
    /\ UNCHANGED <<cmd, in, loc, stdout, runs, campaigns, wsAtStart, prev>>

\* lines 112-115
CI_GenesisPath ==
    /\ cmd = "chain" /\ pc = "genesisPath"
    /\ \E ok \in BOOLEAN :
        LET cs == Append(calls, Call("GenesisPath", loc.id, ok))
        IN  IF ok THEN Goto("parseGenesis", cs) ELSE Return("ErrGenesisPath", cs)
    /\ UNCHANGED <<cmd, in, loc, stdout, runs, campaigns, workspace, wsAtStart, prev>>

\* lines 117-120
CI_ParseGenesis ==
    /\ cmd = "chain" /\ pc = "parseGenesis"
    /\ \E ok \in BOOLEAN, denom \in StakeDenoms :
        LET cs == Append(calls, Call("ParseGenesisFromPath", loc.id, ok))
        IN  IF ok
            THEN /\ loc' = [loc EXCEPT !.stakeDenom = <<denom>>]
                 /\ Goto("askValidator", cs)
            ELSE /\ loc' = loc
                 /\ Return("ErrParseGenesis", cs)
    /\ UNCHANGED <<cmd, in, stdout, runs, campaigns, workspace, wsAtStart, prev>>

\* lines 122-128
CI_AskValidatorInfo ==
    /\ cmd = "chain" /\ pc = "askValidator"
    /\ \E typed \in UserInputs, interrupted \in BOOLEAN :
        LET r == AskValidatorInfo(in, loc.stakeDenom, typed, interrupted)
            cs == Append(calls, Call("askValidatorInfo",
                                     [stakeDenom |-> loc.stakeDenom, typed |-> typed], r.ok))
        IN  /\ loc' = [loc EXCEPT !.v = r.v]
            /\ IF r.ok
               THEN Goto("initAccount", Append(cs, Call("Spinner.Start", <<>>, TRUE)))
               ELSE Return(r.err, cs)
    /\ UNCHANGED <<cmd, in, stdout, runs, campaigns, workspace, wsAtStart, prev>>

\* lines 130-138 removing the home when the gentx cannot be generated
CI_InitAccount_RemoveHome ==
    /\ cmd = "chain" /\ pc = "initAccount"
    /\ \E ok \in BOOLEAN :
        LET cs == Append(calls, Call("InitAccount",
                                     [v |-> loc.v, account |-> loc.validatorAccount], ok))
        IN  IF ok
            THEN /\ workspace' = [workspace EXCEPT ![loc.id] = "gentx"]
                 /\ loc' = [loc EXCEPT !.gentxPath = "gentx.json"]
                 /\ stdout' = Append(stdout, "Gentx generated")
                 /\ Return("nil", Append(cs, Call("Spinner.Stop", <<>>, TRUE)))
            ELSE /\ workspace' = [workspace EXCEPT ![loc.id] = "absent"]
                 /\ loc' = loc
                 /\ stdout' = stdout
                 /\ Return("ErrInitAccount", cs)
    /\ UNCHANGED <<cmd, in, runs, campaigns, wsAtStart, prev>>

\* lines 130-138
CI_InitAccount ==
    /\ cmd = "chain" /\ pc = "initAccount"
    /\ \E ok \in BOOLEAN :
        LET cs == Append(calls, Call("InitAccount",
                                     [v |-> loc.v, account |-> loc.validatorAccount], ok))
        IN  IF ok
            THEN /\ workspace' = [workspace EXCEPT ![loc.id] = "gentx"]
                 /\ loc' = [loc EXCEPT !.gentxPath = "gentx.json"]
                 /\ stdout' = Append(stdout, "Gentx generated")
                 /\ Return("nil", Append(cs, Call("Spinner.Stop", <<>>, TRUE)))
            ELSE /\ workspace' = workspace
                 /\ loc' = loc
                 /\ stdout' = stdout
                 /\ Return("ErrInitAccount", cs)
    /\ UNCHANGED <<cmd, in, runs, campaigns, wsAtStart, prev>>

NextChain ==
    \/ CI_Start
    \/ CI_NewBuilder
    \/ CI_ParseID
    \/ CI_GetByName
    \/ CI_IsChainHomeExist
    \/ CI_Confirm
    \/ CI_Network
    \/ CI_ChainLaunch
    \/ CI_Chain
    \/ CI_Init
    \/ CI_GenesisPath
    \/ CI_ParseGenesis
    \/ CI_AskValidatorInfo
    \/ CI_InitAccount

Init ==
    /\ cmd = "none"
    /\ pc = "idle"
    /\ in = InNone
    /\ loc = LocInit
    /\ ret = "none"
    /\ calls = <<>>
    /\ stdout = <<>>
    /\ runs = 0
    /\ campaigns = [id \in CampaignIDs |-> [name |-> "mainnet", metadata |-> "", totalSupply |-> <<>>]]
    /\ workspace = [id \in LaunchIDs |-> "absent"]
    /\ wsAtStart = workspace
    /\ prev = NoSummary

SpecCampaign == Init /\ [][NextCampaign]_vars

SpecChain == Init /\ [][NextChain]_vars

Next == NextCampaign \/ NextChain

Spec == Init /\ [][Next]_vars

\* one process: cobra runs one of the two handlers, once
NextEither ==
    \/ CU_Start /\ pc = "idle"
    \/ CI_Start /\ pc = "idle"
    \/ CU_ParseCoins
    \/ CU_NewBuilder
    \/ CU_ParseID
    \/ CU_CheckFields
    \/ CU_Network
    \/ CU_BuildProposals
    \/ CU_UpdateCampaign
    \/ CU_Campaign
    \/ CU_Marshal
    \/ CU_Print
    \/ CI_NewBuilder
    \/ CI_ParseID
    \/ CI_GetByName
    \/ CI_IsChainHomeExist
    \/ CI_Confirm
    \/ CI_Network
    \/ CI_ChainLaunch
    \/ CI_Chain
    \/ CI_Init
    \/ CI_GenesisPath
    \/ CI_ParseGenesis
    \/ CI_AskValidatorInfo
    \/ CI_InitAccount

\* a process starts with whatever chain homes earlier invocations left
InitEither ==
    /\ cmd = "none"
    /\ pc = "idle"
    /\ in = InNone
    /\ loc = LocInit
    /\ ret = "none"
    /\ calls = <<>>
    /\ stdout = <<>>
    /\ runs = 0
    /\ campaigns = [id \in CampaignIDs |-> [name |-> "mainnet", metadata |-> "", totalSupply |-> <<>>]]
    /\ workspace \in [LaunchIDs -> HomeStates]
    /\ wsAtStart = workspace
    /\ prev = NoSummary

SpecEither == InitEither /\ [][NextEither]_vars

(***************************************************************************)
(* Properties of networkCampaignUpdateHandler                              *)
(***************************************************************************)
\* the parsed total supply of the invocation's --total-supply flag is empty
TotalSupplyAbsent ==
    LET r == ParseCoinsNormalized(in.totalSupply) IN r.ok /\ Empty(r.coins)
NothingProvided ==
    cmd = "campaign" /\ in.name = "" /\ in.metadata = "" /\ TotalSupplyAbsent
\* a call of the Network Facade: update submission or campaign fetch
FacadeCalled == Called("UpdateCampaign") \/ Called("Campaign")

\* C1 as stated: every invocation with name, metadata and total-supply empty
\* ends with the NoFieldsProvided error and makes no Network Facade call
\* (granted here that the network builder could be created).
C1_Original ==
    (NothingProvided /\ pc = "done" /\ Succeeded("newNetworkBuilder")) =>
        (ret = "ErrNoFields" /\ ~FacadeCalled)

\* C1 amended: an invocation with name, metadata and total-supply empty never
\* makes a Network Facade call (nor asks the builder for the network); it ends
\* with the NoFieldsProvided error when the network builder was created and
\* the campaign id parsed, and with the error of the builder or of the id
\* otherwise.
C1_NoFields ==
    NothingProvided =>
        /\ ~FacadeCalled
        /\ ~Called("Network")
        /\ pc = "done" =>
            ret = IF ~Succeeded("newNetworkBuilder") THEN "ErrBuilder"
                  ELSE IF ~Succeeded("ParseID") THEN "ErrParseID"
                  ELSE "ErrNoFields"

C1_Witness == NothingProvided /\ pc = "done" /\ ret = "ErrNoFields"

FieldRank(f) == CHOOSE i \in 1..3 : <<"name", "metadata", "totalSupply">>[i] = f
Entries(ps, f) == { k \in 1..Len(ps) : ps[k].field = f }

\* C2: the proposition list passed to the update submission has exactly one
\* entry (carrying the supplied value) per field supplied non-empty, none for
\* an absent field, in the order name, metadata, total-supply.
C2_Propositions ==
    \A i \in 1..Len(calls) :
        calls[i].op = "UpdateCampaign" =>
            LET ps == calls[i].arg.props
                want == [name |-> in.name # "",
                         metadata |-> in.metadata # "",
                         totalSupply |-> ~TotalSupplyAbsent]
                value == [name |-> in.name,
                          metadata |-> in.metadata,
                          totalSupply |-> ParseCoinsNormalized(in.totalSupply).coins]
            IN  /\ \A f \in DOMAIN want :
                     /\ Cardinality(Entries(ps, f)) = IF want[f] THEN 1 ELSE 0
                     /\ \A k \in Entries(ps, f) : ps[k].value = value[f]
                /\ \A k \in 1..Len(ps) : ps[k].field \in DOMAIN want
                /\ \A j, k \in 1..Len(ps) :
                     j < k => FieldRank(ps[j].field) < FieldRank(ps[k].field)

C2_Witness ==
    /\ cmd = "campaign"
    /\ \E i \in 1..Len(calls) :
         calls[i].op = "UpdateCampaign" /\ Len(calls[i].arg.props) = 3

\* C6: a total-supply string that does not parse makes the run fail with the
\* amount error before the builder is created, before any Network Facade
\* call and with no proposition built or submitted, whatever the other inputs.
C6_InvalidAmount ==
    (cmd = "campaign" /\ ~ParseCoinsNormalized(in.totalSupply).ok) =>
        /\ ~FacadeCalled
        /\ ~Called("Network")
        /\ ~Called("newNetworkBuilder")
        /\ loc.proposals = <<>>
        /\ pc = "done" => ret = "ErrInvalidCoins"

C6_Witness ==
    /\ cmd = "campaign" /\ pc = "done" /\ ret = "ErrInvalidCoins"
    /\ in.name # "" /\ in.metadata # "" /\ ~ParseID(in.arg).ok

\* C7: the campaign is fetched only after the update submission succeeded,
\* each at most once; the campaign printed is the one that fetch returned;
\* a failed submission ends the run with its error and without a fetch.
C7_FetchAfterUpdate ==
    cmd = "campaign" =>
        /\ CallCount("UpdateCampaign") <= 1
        /\ CallCount("Campaign") <= 1
        /\ Called("Campaign") =>
             /\ Succeeded("UpdateCampaign")
             /\ CallIndex("UpdateCampaign") < CallIndex("Campaign")
        /\ (Called("UpdateCampaign") /\ ~Succeeded("UpdateCampaign")) =>
             /\ pc = "done"
             /\ ret = "ErrUpdateCampaign"
             /\ ~Called("Campaign")
        /\ (pc = "done" /\ ret = "nil") =>
             /\ Succeeded("Campaign")
             /\ stdout[Len(stdout)] = Marshal(calls[CallIndex("Campaign")].arg.campaign)
             /\ calls[CallIndex("Campaign")].arg.campaign = campaigns[loc.id]

C7_Witness ==
    /\ cmd = "campaign" /\ pc = "done" /\ ret = "nil"
    /\ campaigns[loc.id].name = "testnet"
    /\ stdout[Len(stdout)][1] = <<"name", "testnet">>

(***************************************************************************)
(* Properties of networkChainInitHandler                                   *)
(***************************************************************************)
ChainDone == cmd = "chain" /\ pc = "done"
\* the home of the invocation's launch id existed when the invocation started
HomeExisted == HomeExists(wsAtStart[loc.id])
\* the second of two chain-init runs
AfterChainRun == cmd = "chain" /\ prev.cmd = "chain"

\* C3 as stated: the value returned by a declined run differs from the value
\* returned by a successful run and from every error return.
C3_Original ==
    /\ (ChainDone /\ Declined /\ AfterChainRun /\ prev.kind \in {"success", "failure"})
          => ret # prev.ret
    /\ (ChainDone /\ ~Declined /\ AfterChainRun /\ prev.kind = "declined")
          => ret # prev.ret

\* C3 amended: a declined run returns nil, the value a successful run returns;
\* it differs from every error return, and from a successful run only in what
\* it did: no gentx was generated and "said no" was printed.
C3_DeclinedReturnsNil ==
    /\ (ChainDone /\ Declined) =>
          /\ ret = "nil"
          /\ ret \notin Errors
          /\ ~GentxGenerated
          /\ stdout = <<"said no">>
          /\ (AfterChainRun /\ prev.kind = "success") => ret = prev.ret
          /\ (AfterChainRun /\ prev.kind = "failure") => ret # prev.ret
    /\ (ChainDone /\ ~Declined /\ AfterChainRun /\ prev.kind = "declined") =>
          /\ prev.ret = "nil"
          /\ GentxGenerated => (ret = prev.ret /\ stdout = <<"Gentx generated">>)
          /\ ~GentxGenerated => ret \in Errors

C3_Witness == ChainDone /\ Declined /\ AfterChainRun /\ prev.kind = "success"

\* C4: when a workspace exists, the yes-flag is not set and the user declines
\* the overwrite, the run ends without an error, never fetches the
\* ChainLaunch, never initializes the chain or generates a gentx, and leaves
\* the workspace as it was before the call.
C4_DeclineNoEffect ==
    (cmd = "chain" /\ Declined) =>
        /\ HomeExisted /\ ~in.yes
        /\ pc = "done"
        /\ ret = "nil"
        /\ ~Called("Network")
        /\ ~Called("ChainLaunch")
        /\ ~Called("Chain")
        /\ ~Called("Init")
        /\ ~Called("InitAccount")
        /\ workspace = wsAtStart

C4_Witness ==
    /\ ChainDone /\ Declined
    /\ \E i \in 1..Len(calls) : calls[i].op = "Prompt" /\ calls[i].arg = "n"
    /\ workspace[loc.id] = "gentx"

\* a run for the launch id whose previous run failed in gentx generation
RerunAfterGentxFailure ==
    /\ AfterChainRun
    /\ prev.failedOp = "InitAccount"
    /\ Succeeded("ParseID")
    /\ loc.id = prev.id

\* C5 as stated: the run after a gentx failure shows no overwrite prompt and
\* does not initialize the chain again.
C5_Original ==
    RerunAfterGentxFailure => (~Called("Prompt") /\ ~Called("Init"))

\* C5 amended: the run after a gentx failure finds the home existing, shows
\* the overwrite prompt unless the yes-flag is set, and reaches gentx
\* generation only after initializing the chain again.
C5_RerunPromptsAndReinits ==
    RerunAfterGentxFailure =>
        /\ wsAtStart[loc.id] = "initialized"
        /\ Succeeded("IsChainHomeExist") => loc.exist
        /\ (Succeeded("IsChainHomeExist") /\ pc # "confirm") =>
              (Called("Prompt") <=> ~in.yes)
        /\ Called("InitAccount") =>
              /\ Succeeded("Init")
              /\ CallIndex("Init") < CallIndex("InitAccount")

C5_Witness ==
    /\ RerunAfterGentxFailure /\ ~in.yes
    /\ Succeeded("Prompt") /\ GentxGenerated

\* C8: the account lookup precedes every workspace mutation; when the account
\* is unknown the run fails, with the lookup error once the lookup has run,
\* and no home check, prompt, ChainLaunch fetch, chain initialization or
\* gentx generation has happened.
C8_AccountFirst ==
    cmd = "chain" =>
        /\ (Called("Init") \/ Called("InitAccount") \/ workspace # wsAtStart) =>
              /\ Succeeded("GetByName")
              /\ Called("Init") => CallIndex("GetByName") < CallIndex("Init")
        /\ in.account \notin Accounts =>
              /\ ~Called("IsChainHomeExist")
              /\ ~Called("Prompt")
              /\ ~Called("ChainLaunch")
              /\ ~Called("Init")
              /\ ~Called("InitAccount")
              /\ workspace = wsAtStart
              /\ pc = "done" => ret \in Errors
              /\ Called("GetByName") => (pc = "done" /\ ret = "ErrAccountNotFound")

C8_Witness ==
    /\ ChainDone /\ in.account \notin Accounts /\ ret = "ErrAccountNotFound"
    /\ HomeExisted /\ in.yes

\* the run is past the check of line 78
PastConfirm == Succeeded("IsChainHomeExist") /\ pc # "confirm"

\* C9: the prompt is shown exactly when the home exists and the yes-flag is
\* not set; otherwise the step after the home check is the network access
\* that fetches the ChainLaunch, with no prompt in between.
C9_PromptExactlyWhen ==
    cmd = "chain" =>
        /\ Called("Prompt") <=> (PastConfirm /\ HomeExisted /\ ~in.yes)
        /\ CallCount("Prompt") <= 1
        /\ (Called("Network") /\ ~(HomeExisted /\ ~in.yes)) =>
              calls[CallIndex("Network") - 1].op = "IsChainHomeExist"
        /\ (PastConfirm /\ pc # "done" /\ ~(HomeExisted /\ ~in.yes)) =>
              (pc = "network" => calls[Len(calls)].op = "IsChainHomeExist")

C9_Witness ==
    /\ cmd = "chain" /\ Succeeded("ChainLaunch") /\ ~Called("Prompt")
    /\ HomeExisted /\ in.yes

\* C10 as stated: chain initialization is invoked only if no home existed or
\* the overwrite confirmation returned true in that run.
C10_Original ==
    (cmd = "chain" /\ Called("Init")) => (~HomeExisted \/ Succeeded("Prompt"))

\* C10 amended: chain initialization is invoked only if no home existed, the
\* overwrite confirmation returned true in that run, or the yes-flag is set.
C10_InitGuard ==
    (cmd = "chain" /\ Called("Init")) =>
        (~HomeExisted \/ Succeeded("Prompt") \/ in.yes)

C10_Witness ==
    /\ cmd = "chain" /\ Succeeded("Init")
    /\ HomeExisted /\ Succeeded("Prompt") /\ ~in.yes

(***************************************************************************)
(* Properties of askValidatorInfo                                          *)
(***************************************************************************)
\* the call of askValidatorInfo made by the run, and what the user typed
Asked == cmd = "chain" /\ Called("askValidatorInfo")
AskCall == calls[CallIndex("askValidatorInfo")]
TypedFor(k) == AskCall.arg.typed[k]

\* C11 as stated: when the user supplies no staking amount the flow fails
\* with IncompleteInput and returns no profile with a staking amount filled in.
C11_Original ==
    (Asked /\ TypedFor(1) = "") =>
        /\ ~AskCall.ok
        /\ loc.v.StakingAmount = ""
        /\ pc = "done" => ret \in {"ErrIncompleteInput", "ErrAskValidator"}

\* C11 amended: the staking-amount question defaults to 95000000stake and the
\* commission questions to 0.10, 0.20 and 0.01; a question answered with a
\* bare return gets its default, so a missing staking amount is filled in
\* with 95000000stake and the flow does not fail with IncompleteInput.
C11_DefaultsFill ==
    Asked =>
        /\ ret # "ErrIncompleteInput"
        /\ ~AskCall.ok => (pc = "done" /\ ret = "ErrAskValidator")
        /\ AskCall.ok =>
             /\ loc.v.StakingAmount =
                   IF TypedFor(1) = "" THEN "95000000stake" ELSE TypedFor(1)
             /\ loc.v.CommissionRate = IF TypedFor(2) = "" THEN "0.10" ELSE TypedFor(2)
             /\ loc.v.CommissionMaxRate = IF TypedFor(3) = "" THEN "0.20" ELSE TypedFor(3)
             /\ loc.v.CommissionMaxChangeRate =
                   IF TypedFor(4) = "" THEN "0.01" ELSE TypedFor(4)
             /\ Called("InitAccount") => calls[CallIndex("InitAccount")].arg.v = loc.v

C11_Witness ==
    /\ Asked /\ TypedFor(1) = "" /\ Called("InitAccount")
    /\ calls[CallIndex("InitAccount")].arg.v.StakingAmount = "95000000stake"

\* the profile handed to gentx generation
GentxCalled == cmd = "chain" /\ Called("InitAccount")
GentxArg == calls[CallIndex("InitAccount")].arg

\* C12 as stated: the gas price of the profile handed to gentx generation is
\* "0" followed by the stake denomination of the genesis.
C12_Original ==
    GentxCalled => GentxArg.v.GasPrices = <<"0">> \o AskCall.arg.stakeDenom

\* C12 amended: the gas price handed to gentx generation is the value of the
\* validator-gas-price flag when that flag is not empty, and otherwise "0"
\* followed by the stake denomination of the genesis; it is never asked for.
C12_GasPrice ==
    GentxCalled =>
        /\ GentxArg.v.GasPrices =
              IF in.gasPrice # <<>> THEN in.gasPrice
              ELSE <<"0">> \o AskCall.arg.stakeDenom
        /\ AskCall.arg.stakeDenom = loc.stakeDenom
        /\ Len(loc.stakeDenom) = 1 /\ loc.stakeDenom[1] \in StakeDenoms
        /\ \A k \in 1..Len(Questions) : Questions[k].field # "GasPrices"

C12_Witness ==
    /\ GentxCalled /\ in.gasPrice # <<>>
    /\ GentxArg.v.GasPrices = <<"1", "stake">> /\ loc.stakeDenom = <<"uatom">>

\* C19: the account name looked up, the Name of the validator profile and the
\* account name passed to gentx generation are all the validator-account flag.
C19_SameAccount ==
    GentxCalled =>
        /\ Succeeded("GetByName")
        /\ calls[CallIndex("GetByName")].arg = in.account
        /\ GentxArg.v.Name = in.account
        /\ GentxArg.account = in.account
        /\ GentxArg.v.Name = GentxArg.account

C19_Witness ==
    /\ GentxCalled /\ Succeeded("InitAccount")
    /\ GentxArg.account = "alice" /\ GentxArg.v.Name = "alice"

(***************************************************************************)
(* Further properties of networkChainInitHandler                           *)
(***************************************************************************)
\* the calls of the run after the first call of op
CallsAfter(op) == SubSeq(calls, CallIndex(op) + 1, Len(calls))

\* C13: a failed gentx generation is followed by nothing but the deferred
\* cleanup and the return of its error, and the initialized home stays.
C13_GentxFailureKeepsHome ==
    (cmd = "chain" /\ Called("InitAccount") /\ ~Succeeded("InitAccount")) =>
        /\ pc = "done"
        /\ ret = "ErrInitAccount"
        /\ CallsAfter("InitAccount") = <<Call("Cleanup", <<>>, TRUE)>>
        /\ workspace[loc.id] = "initialized"
        /\ \A id \in LaunchIDs : id # loc.id => workspace[id] = wsAtStart[id]

C13_Witness ==
    /\ ChainDone /\ ret = "ErrInitAccount"
    /\ wsAtStart[loc.id] = "gentx" /\ workspace[loc.id] = "initialized"

\* the steps of ChainInit in program order, and the error each one produces
StepOrder ==
    << "newNetworkBuilder", "ParseID", "GetByName", "IsChainHomeExist", "Prompt",
       "Network", "ChainLaunch", "Chain", "Init", "GenesisPath",
       "ParseGenesisFromPath", "askValidatorInfo", "InitAccount" >>
StepError ==
    << "ErrBuilder", "ErrParseID", "ErrAccountNotFound", "ErrHomeCheck", "ErrPrompt",
       "ErrNetwork", "ErrChainLaunch", "ErrChain", "ErrInit", "ErrGenesisPath",
       "ErrParseGenesis", "ErrAskValidator", "ErrInitAccount" >>
IsStep(c) == \E r \in 1..Len(StepOrder) : StepOrder[r] = c.op
StepRank(op) == CHOOSE r \in 1..Len(StepOrder) : StepOrder[r] = op
Steps == SelectSeq(calls, IsStep)

\* the steps run in program order, each at most once and only after every
\* earlier step other than the optional confirmation succeeded; a step that
\* did not succeed is the last one and ends the run
StepsInOrder ==
    /\ \A i, j \in 1..Len(Steps) :
          i < j => /\ StepRank(Steps[i].op) < StepRank(Steps[j].op)
                   /\ Steps[i].ok
    /\ \A i \in 1..Len(Steps) :
          \A r \in 1..(StepRank(Steps[i].op) - 1) :
              StepOrder[r] # "Prompt" => Succeeded(StepOrder[r])
    /\ \A i \in 1..Len(Steps) : ~Steps[i].ok => (i = Len(Steps) /\ pc = "done")
    /\ (pc = "done" /\ \A i \in 1..Len(Steps) : Steps[i].ok) =>
          (ret = "nil" /\ Succeeded("InitAccount"))

\* a step that failed; an explicit no to the confirmation is an answer, not a
\* failure of the prompt
StepFailed(c) == ~c.ok /\ ~(c.op = "Prompt" /\ c.arg = "n")

\* C14 as stated: the steps run in order, each at most once and only after the
\* earlier ones succeeded, and when a step fails the handler returns that
\* step's error.
C14_Original ==
    cmd = "chain" =>
        /\ StepsInOrder
        /\ \A i \in 1..Len(Steps) :
              StepFailed(Steps[i]) => ret = StepError[StepRank(Steps[i].op)]

\* C14 amended: the steps run in program order, each at most once and only
\* after the earlier ones succeeded; when a step other than the overwrite
\* confirmation fails the handler returns that step's error, and when the
\* confirmation fails (interrupt, end of input) or is answered no the handler
\* returns nil; in both cases no later step is executed.
C14_StepOrder ==
    cmd = "chain" =>
        /\ StepsInOrder
        /\ \A i \in 1..Len(Steps) :
              ~Steps[i].ok =>
                  ret = IF Steps[i].op = "Prompt" THEN "nil"
                        ELSE StepError[StepRank(Steps[i].op)]

C14_Witness ==
    /\ ChainDone /\ ret = "nil" /\ Len(Steps) = 5
    /\ Steps[5].op = "Prompt" /\ Steps[5].arg = "eof" /\ ~Steps[5].ok

\* C16: when the fetch of the ChainLaunch fails the run ends with that error,
\* chain initialization is never invoked and the workspace is as before.
C16_FetchFailure ==
    (cmd = "chain" /\ Called("ChainLaunch") /\ ~Succeeded("ChainLaunch")) =>
        /\ pc = "done"
        /\ ret = "ErrChainLaunch"
        /\ ~Called("Chain")
        /\ ~Called("Init")
        /\ ~Called("InitAccount")
        /\ workspace = wsAtStart

C16_Witness ==
    /\ ChainDone /\ ret = "ErrChainLaunch"
    /\ Succeeded("Prompt") /\ workspace[loc.id] = "gentx"

\* C18: whatever makes the confirmation prompt return an error (no, an
\* interrupt, end of input), the run ends with a nil error, without the
\* ChainLaunch fetch and without chain initialization.
C18_PromptErrorIsNil ==
    cmd = "chain" =>
        \A i \in 1..Len(calls) :
            (calls[i].op = "Prompt" /\ calls[i].arg \in PromptResults \ {"y"}) =>
                /\ ~calls[i].ok
                /\ pc = "done"
                /\ ret = "nil"
                /\ ret \notin Errors
                /\ SubSeq(calls, i + 1, Len(calls)) = <<Call("Cleanup", <<>>, TRUE)>>
                /\ ~Called("ChainLaunch")
                /\ ~Called("Init")

C18_Witness ==
    /\ ChainDone /\ ret = "nil"
    /\ \E i \in 1..Len(calls) : calls[i].op = "Prompt" /\ calls[i].arg = "interrupt"

(***************************************************************************)
(* Further properties of networkCampaignUpdateHandler                      *)
(***************************************************************************)
\* C15 as stated: an invocation with a malformed identifier fails with the
\* identifier error whatever the field values are (granted that the network
\* builder, when asked for, could be created).
C15_Original ==
    (cmd = "campaign" /\ pc = "done" /\ ~ParseID(in.arg).ok
        /\ (Called("newNetworkBuilder") => Succeeded("newNetworkBuilder")))
      => ret = "ErrParseID"

CampaignOrder ==
    << "ParseCoinsNormalized", "newNetworkBuilder", "ParseID", "Network",
       "UpdateCampaign", "Campaign" >>

\* C15 amended: CampaignUpdate parses the total supply first, then creates
\* the builder, parses the identifier, checks that a field was provided,
\* asks for the network, builds the propositions, submits and re-fetches; an
\* invocation with a malformed identifier fails with the identifier error
\* only when the total supply parsed (and the builder was created), and with
\* the amount error when the total supply is malformed.
C15_CampaignOrder ==
    cmd = "campaign" =>
        /\ \A r \in 2..Len(CampaignOrder) :
              Called(CampaignOrder[r]) =>
                  /\ Succeeded(CampaignOrder[r - 1])
                  /\ CallIndex(CampaignOrder[r - 1]) < CallIndex(CampaignOrder[r])
        /\ \A r \in 1..Len(CampaignOrder) : CallCount(CampaignOrder[r]) <= 1
        /\ Called("Network") => ~NoFieldsProvided(in.name, in.metadata, loc.totalSupply)
        /\ loc.proposals # <<>> => Succeeded("Network")
        /\ (pc = "done" /\ ~ParseID(in.arg).ok) =>
              ret = IF ~ParseCoinsNormalized(in.totalSupply).ok THEN "ErrInvalidCoins"
                    ELSE IF ~Succeeded("newNetworkBuilder") THEN "ErrBuilder"
                    ELSE "ErrParseID"

C15_Witness ==
    /\ cmd = "campaign" /\ pc = "done" /\ ret = "ErrInvalidCoins"
    /\ ~ParseID(in.arg).ok /\ ~Called("ParseID")

\* C17: the update submission is never invoked with an empty proposition
\* list; the list holds between one and three propositions.
C17_NonEmptyBatch ==
    cmd = "campaign" =>
        \A i \in 1..Len(calls) :
            calls[i].op = "UpdateCampaign" =>
                /\ Len(calls[i].arg.props) >= 1
                /\ Len(calls[i].arg.props) <= 3
                /\ ~NothingProvided

C17_Witness ==
    /\ cmd = "campaign" /\ Called("UpdateCampaign")
    /\ Len(calls[CallIndex("UpdateCampaign")].arg.props) = 1
    /\ in.totalSupply = <<Coin(100, "stake")>>

(***************************************************************************)
(* Both handlers                                                           *)
(***************************************************************************)
\* C20: once the network builder was created its Cleanup runs exactly once
\* on every return, as the last call of the run, and never before the
\* return; it does not run when the creation of the builder failed.
C20_CleanupOnce ==
    /\ pc # "done" => ~Called("Cleanup")
    /\ pc = "done" =>
          /\ CallCount("Cleanup") = IF Succeeded("newNetworkBuilder") THEN 1 ELSE 0
          /\ Called("Cleanup") => calls[Len(calls)].op = "Cleanup"
          /\ Called("newNetworkBuilder") \/ ret = "ErrInvalidCoins"

C20_Witness ==
    /\ ChainDone /\ Declined /\ CallCount("Cleanup") = 1

=============================================================================
